---------------------------- MODULE Spec2Model ----------------------------
(***************************************************************************)
(* A model of advanced-vector/vector.h: RawMemory<T> (a block of raw       *)
(* storage) and Vector<T> (a growable array that constructs and destroys   *)
(* its elements by hand inside a RawMemory).                               *)
(*                                                                         *)
(* The heap is a map from block addresses to cells.  A cell is Raw (no     *)
(* live object) or holds the value of a live T object.  Every member       *)
(* function of Vector is one action; its body is a chain of element        *)
(* operations on an execution record (the heap, the number of objects      *)
(* constructed and destroyed, and whether an exception is in flight).      *)
(***************************************************************************)
EXTENDS Integers, FiniteSets, Sequences, TLC

\* ------------------------------------------------------------------ bounds
MaxCap == 4          \* largest capacity a vector grows to
MaxN == 2            \* largest n passed to Vector(n), Reserve(n), Resize(n)
HeapCells == 6       \* cells the heap can hand out at once
NumAddrs == 3        \* distinct block addresses
MaxLeak == 2         \* the leak counter saturates here
WordBits == 4        \* the width w of size_t in the size computations

\* ------------------------------------------------------- cells and objects
Raw == -1            \* a cell of raw storage, holding no live object
MovedFrom == -2      \* the value of an object that has been moved from
DefaultValue == 0    \* the value of T()
Values == {0, 1}     \* the values a caller stores
NullPtr == 0         \* nullptr
Addrs == 1..NumAddrs
Vecs == {"a", "b"}   \* the Vector objects of the program
Types == {"NothrowMove", "ThrowingMove", "MoveOnly"}

VARIABLES
    T,        \* the element type: which of its operations exist and may throw
    vec,      \* vec[v]: whether Vector v exists, its data_ and its size_
    mem,      \* mem[a]: the cells of the block at address a (<<>>: not allocated)
    leaked,   \* objects whose storage was released or reused while they were live
    ub,       \* an object was destroyed, read or assigned where none is live
    threw,    \* a step of some call has thrown
    aborted,  \* an assert failed and the program was aborted
    raw,      \* the RawMemory objects that are not a Vector's data_
    req,      \* a request for storage, its sizes computed in size_t
    watch,    \* which calls are recorded in last
    last      \* the call just made, if it is a watched one

vars == <<T, vec, mem, leaked, ub, threw, aborted, raw, req, watch, last>>

Min(x, y) == IF x < y THEN x ELSE y
Max(x, y) == IF x > y THEN x ELSE y

\* ------------------------------------------------------------ type traits
is_copy_constructible == T # "MoveOnly"
is_nothrow_move_constructible == T = "NothrowMove"
is_nothrow_move_assignable == T = "NothrowMove"
\* a transfer that moves whatever the type
UseMoveAlways == TRUE

\* vector.h:183-184, 240-241: the transfer strategy on reallocation
UseMove == is_nothrow_move_constructible \/ ~is_copy_constructible

\* ------------------------------------------------------------------- heap
NoBlock == <<>>
Block(n) == [i \in 0..(n - 1) |-> Raw]
BlockSize(m, a) == Cardinality(DOMAIN m[a])
UsedCells(m) ==
    LET RECURSIVE Sum(_)
        Sum(a) == IF a = 0 THEN 0 ELSE BlockSize(m, a) + Sum(a - 1)
    IN Sum(NumAddrs)
FreeAddrs(m) == {a \in Addrs : m[a] = NoBlock}
HasRoom(m, n) == FreeAddrs(m) # {} /\ UsedCells(m) + n <= HeapCells
\* operator new: the model's allocator is first-fit
FirstFree(m) == CHOOSE a \in FreeAddrs(m) : \A b \in FreeAddrs(m) : a <= b
LiveIn(b) == Cardinality({i \in DOMAIN b : b[i] # Raw})
Live(m, a, i) == a # NullPtr /\ i \in DOMAIN m[a] /\ m[a][i] # Raw

\* ------------------------------------------------------ execution records
\* fc: the fallible step that throws, counted from the next one (0: none);
\* f: the same, counted from the start of the call.
Start(f) ==
    [mem |-> mem, fc |-> f, f |-> f, thrown |-> FALSE, oom |-> FALSE, new |-> NullPtr,
     nC |-> 0, nD |-> 0, nA |-> 0, leaked |-> leaked, ub |-> ub]

Throw(S) == [S EXCEPT !.thrown = TRUE, !.fc = 0]
Tick(S, can) == IF can /\ S.fc > 0 THEN [S EXCEPT !.fc = @ - 1] ELSE S
\* a catch block: run the handler with the exception caught
Caught(S) == [S EXCEPT !.thrown = FALSE]
Rethrow(S) == [S EXCEPT !.thrown = TRUE]

\* an Allocate whose failure leaves the block taken
AllocateLeaky(S, n) ==
    IF S.thrown THEN S
    ELSE IF n = 0 THEN [S EXCEPT !.new = NullPtr]
    ELSE IF ~HasRoom(S.mem, n)
         THEN [S EXCEPT !.oom = TRUE, !.thrown = TRUE, !.new = NullPtr]
    ELSE IF S.fc = 1
         THEN [Throw(S) EXCEPT !.mem[FirstFree(S.mem)] = Block(n),
                               !.new = NullPtr]
    ELSE [Tick(S, TRUE) EXCEPT !.mem[FirstFree(S.mem)] = Block(n),
                               !.new = FirstFree(S.mem)]

\* RawMemory::Allocate
Allocate(S, n) ==
    IF S.thrown THEN S
    ELSE IF n = 0 THEN [S EXCEPT !.new = NullPtr]
    ELSE IF S.fc = 1 THEN [Throw(S) EXCEPT !.new = NullPtr]
    ELSE IF ~HasRoom(S.mem, n)
         THEN [S EXCEPT !.oom = TRUE, !.thrown = TRUE, !.new = NullPtr]
    ELSE LET a == FirstFree(S.mem)
         IN [Tick(S, TRUE) EXCEPT !.mem[a] = Block(n), !.new = a]

\* RawMemory::Deallocate (noexcept; also runs while an exception unwinds)
Deallocate(S, a) ==
    IF a = NullPtr THEN S
    ELSE IF S.mem[a] = NoBlock THEN [S EXCEPT !.ub = TRUE]
    ELSE [S EXCEPT !.leaked = Min(MaxLeak, @ + LiveIn(S.mem[a])),
                   !.mem[a] = NoBlock]

\* new (data) T(x): construct an object of value x in cell i of block a
ConstructAt(S, a, i, x, can) ==
    IF S.thrown THEN S
    ELSE IF can /\ S.fc = 1 THEN Throw(S)
    ELSE IF a = NullPtr \/ i \notin DOMAIN S.mem[a] \/ x = Raw
         THEN [S EXCEPT !.ub = TRUE]
    ELSE [Tick(S, can) EXCEPT
            !.leaked = IF S.mem[a][i] # Raw THEN Min(MaxLeak, @ + 1) ELSE @,
            !.mem[a][i] = x, !.nC = @ + 1]

\* buf->~T()
Destroy(S, a, i) ==
    IF ~Live(S.mem, a, i) THEN [S EXCEPT !.ub = TRUE]
    ELSE [S EXCEPT !.mem[a][i] = Raw, !.nD = @ + 1]

\* the value read through a reference to cell i of block a
ReadAt(m, a, i) == IF Live(m, a, i) THEN m[a][i] ELSE Raw

\* ------------------------------------------------------ element operations
\* T(const T&): may throw for every copy-constructible T of the model
CopyConstruct(S, sa, si, da, di) ==
    ConstructAt(S, da, di, ReadAt(S.mem, sa, si), TRUE)

\* after T(T&&) the source object stays live, with the moved-from value;
\* before: the count of constructions when the move began
MovedIf(S, before, sa, si) ==
    IF S.nC = before THEN S ELSE [S EXCEPT !.mem[sa][si] = MovedFrom]

\* T(T&&)
MoveConstruct(S, sa, si, da, di) ==
    MovedIf(ConstructAt(S, da, di, ReadAt(S.mem, sa, si),
                        ~is_nothrow_move_constructible),
            S.nC, sa, si)

\* T(): value-initialisation
ValueConstruct(S, a, i) == ConstructAt(S, a, i, DefaultValue, TRUE)

\* *dst = x: assignment to the live object in cell i of block a
AssignAt(S, a, i, x, can) ==
    IF S.thrown THEN S
    ELSE IF can /\ S.fc = 1 THEN Throw(S)
    ELSE IF ~Live(S.mem, a, i) \/ x = Raw THEN [S EXCEPT !.ub = TRUE]
    ELSE [Tick(S, can) EXCEPT !.mem[a][i] = x, !.nA = @ + 1]

\* T& operator=(const T&)
CopyAssignAt(S, sa, si, da, di) ==
    AssignAt(S, da, di, ReadAt(S.mem, sa, si), TRUE)

\* after T& operator=(T&&) the source holds the moved-from value
AssignedIf(S, before, sa, si) ==
    IF S.nA = before THEN S ELSE [S EXCEPT !.mem[sa][si] = MovedFrom]

\* T& operator=(T&&)
MoveAssignAt(S, sa, si, da, di) ==
    AssignedIf(AssignAt(S, da, di, ReadAt(S.mem, sa, si),
                        ~is_nothrow_move_assignable),
               S.nA, sa, si)

\* ------------------------------------------------------ <memory> algorithms
\* Vector::DestroyN, std::destroy_n: cells [i, i + n) of block a
RECURSIVE DestroyRange(_, _, _, _)
DestroyRange(S, a, i, n) ==
    IF n = 0 THEN S ELSE DestroyRange(Destroy(S, a, i), a, i + 1, n - 1)

DestroyN(S, a, i, n) == IF S.thrown THEN S ELSE DestroyRange(S, a, i, n)

\* The loop of std::uninitialized_copy_n before element k.  A throw by
\* element k - 1 destroys the k - 1 objects already constructed in the
\* destination and goes on.
RECURSIVE UninitCopyFrom(_, _, _, _, _, _, _)
UninitCopyFrom(S, sa, so, n, da, do, k) ==
    IF S.thrown THEN Rethrow(DestroyRange(Caught(S), da, do, k - 1))
    ELSE IF k = n THEN S
    ELSE UninitCopyFrom(CopyConstruct(S, sa, so + k, da, do + k),
                        sa, so, n, da, do, k + 1)

uninitialized_copy_n(S, sa, so, n, da, do) ==
    IF S.thrown THEN S ELSE UninitCopyFrom(S, sa, so, n, da, do, 0)

\* std::uninitialized_move_n: the same, by move construction
RECURSIVE UninitMoveFrom(_, _, _, _, _, _, _)
UninitMoveFrom(S, sa, so, n, da, do, k) ==
    IF S.thrown THEN Rethrow(DestroyRange(Caught(S), da, do, k - 1))
    ELSE IF k = n THEN S
    ELSE UninitMoveFrom(MoveConstruct(S, sa, so + k, da, do + k),
                        sa, so, n, da, do, k + 1)

uninitialized_move_n(S, sa, so, n, da, do) ==
    IF S.thrown THEN S ELSE UninitMoveFrom(S, sa, so, n, da, do, 0)

\* std::uninitialized_value_construct_n
RECURSIVE UninitValueFrom(_, _, _, _, _)
UninitValueFrom(S, a, o, n, k) ==
    IF S.thrown THEN Rethrow(DestroyRange(Caught(S), a, o, k - 1))
    ELSE IF k = n THEN S
    ELSE UninitValueFrom(ValueConstruct(S, a, o + k), a, o, n, k + 1)

uninitialized_value_construct_n(S, a, o, n) ==
    IF S.thrown THEN S ELSE UninitValueFrom(S, a, o, n, 0)

\* std::copy(first, first + n, d): element-wise copy assignment, front first
RECURSIVE CopyFrom(_, _, _, _, _, _, _)
CopyFrom(S, sa, so, n, da, do, k) ==
    IF S.thrown \/ k = n THEN S
    ELSE CopyFrom(CopyAssignAt(S, sa, so + k, da, do + k),
                  sa, so, n, da, do, k + 1)

std_copy(S, sa, so, n, da, do) == CopyFrom(S, sa, so, n, da, do, 0)

\* std::move(first, first + n, d): element-wise move assignment, front first
RECURSIVE MoveFrom(_, _, _, _, _, _, _)
MoveFrom(S, sa, so, n, da, do, k) ==
    IF S.thrown \/ k = n THEN S
    ELSE MoveFrom(MoveAssignAt(S, sa, so + k, da, do + k),
                  sa, so, n, da, do, k + 1)

std_move(S, sa, so, n, da, do) == MoveFrom(S, sa, so, n, da, do, 0)

\* std::move_backward(first, first + n, d_last): move assignment, back first;
\* the last source goes to d_last - 1
RECURSIVE MoveBackwardFrom(_, _, _, _, _, _)
MoveBackwardFrom(S, a, first, n, dlast, k) ==
    IF S.thrown \/ k = n THEN S
    ELSE MoveBackwardFrom(
            MoveAssignAt(S, a, first + n - 1 - k, a, dlast - 1 - k),
            a, first, n, dlast, k + 1)

\* a shift to the right that runs from the front, as std::move does
move_forward(S, a, first, n, dlast) == std_move(S, a, first, n, a, dlast - n)

move_backward(S, a, first, n, dlast) == MoveBackwardFrom(S, a, first, n, dlast, 0)

\* ---------------------------------------------------------------- RawMemory
\* RawMemory(): buffer_ = nullptr, capacity_ = 0
EmptyRawMemory == [buffer_ |-> NullPtr, capacity_ |-> 0]

\* RawMemory(size_t capacity), the block being the one Allocate left in S.new
RawMemoryOf(S, n) == [buffer_ |-> S.new, capacity_ |-> n]

\* RawMemory(RawMemory&& other): the new object and what is left of other
RawMemoryMoveCtor(other) == [this |-> other, other |-> EmptyRawMemory]

\* a move assignment that does not release the block of the target
RawMemoryMoveAssignKeep(S, this, rhs, same) ==
    IF same THEN [S |-> S, this |-> this, rhs |-> this]
    ELSE [S |-> S, this |-> rhs, rhs |-> EmptyRawMemory]

\* RawMemory& operator=(RawMemory&& rhs)
RawMemoryMoveAssign(S, this, rhs, same) ==
    IF same THEN [S |-> S, this |-> this, rhs |-> this]
    ELSE [S |-> Deallocate(S, this.buffer_), this |-> rhs,
          rhs |-> EmptyRawMemory]

\* RawMemory::Swap
RawMemorySwap(x, y) == [x |-> y, y |-> x]

\* ~RawMemory() of the temporary that ends std::swap
SwapEnd(a2, same) ==
    [S |-> Deallocate(a2.S, a2.rhs.buffer_), x |-> a2.x, y |-> a2.this]

\* y = std::move(tmp); with &x == &y this also sets x
SwapBack(a1, tmp, same) ==
    LET a2 == RawMemoryMoveAssign(a1.S, a1.rhs, tmp, FALSE)
    IN SwapEnd([S |-> a2.S, this |-> a2.this, rhs |-> a2.rhs,
                x |-> IF same THEN a2.this ELSE a1.this], same)

\* std::swap(x, y) on RawMemory: tmp(std::move(x)); x = std::move(y);
\* y = std::move(tmp); ~tmp
StdSwapRawMemory(S, x, y, same) ==
    SwapBack(RawMemoryMoveAssign(S, RawMemoryMoveCtor(x).other, y, same),
             RawMemoryMoveCtor(x).this, same)

\* a RawMemory object of the program: alive between constructor and
\* destructor, with its two members in data_
RawObjs == {"r", "s", "t"}
NoRawMemory == [alive |-> FALSE, data_ |-> EmptyRawMemory]

\* ------------------------------------------------------------------- Vector
NoVector == [alive |-> FALSE, data_ |-> EmptyRawMemory, size_ |-> 0]
NewVector(d, n) == [alive |-> TRUE, data_ |-> d, size_ |-> n]
NoIter == [buf |-> NullPtr, idx |-> -1]
Iter(a, i) == [buf |-> a, idx |-> i]

Buf(V) == V.data_.buffer_
Capacity(V) == V.data_.capacity_
Size(V) == V.size_
begin(V) == Iter(Buf(V), 0)
end(V) == Iter(Buf(V), Size(V))

\* a constructor ends: on a throw the member data_ is destroyed and no
\* Vector exists; S.new is the block of data_
CtorEnd(S, n) ==
    IF S.thrown THEN [S |-> Deallocate(S, S.new), V |-> NoVector]
    ELSE [S |-> S, V |-> NewVector(RawMemoryOf(S, n), n)]

\* uninitialized_value_construct_n(data_.GetAddress(), size)
ValueFill(S, n) == uninitialized_value_construct_n(S, S.new, 0, n)

\* Vector(size_t size)
SizedCtorBody(S, n) == CtorEnd(ValueFill(Allocate(S, n), n), n)

\* uninitialized_copy_n(other.data_.GetAddress(), size_, data_.GetAddress())
CopyFill(S, other) ==
    uninitialized_copy_n(S, Buf(other), 0, Size(other), S.new, 0)

\* a copy constructor that copies the members
CopyCtorBodyShallow(S, other) == [S |-> S, V |-> other]

\* Vector(const Vector& other)
CopyCtorBody(S, other) ==
    CtorEnd(CopyFill(Allocate(S, Size(other)), other), Size(other))

\* a Swap that exchanges data_ alone
SwapSizesForgotten(d, V, W) ==
    [S |-> d.S, V |-> [V EXCEPT !.data_ = d.x], W |-> [W EXCEPT !.data_ = d.y]]

\* std::swap(size_, other.size_) after the swap d of the two data_
SwapSizes(d, V, W) ==
    [S |-> d.S,
     V |-> [V EXCEPT !.data_ = d.x, !.size_ = W.size_],
     W |-> [W EXCEPT !.data_ = d.y, !.size_ = V.size_]]

\* Vector::Swap
SwapBody(S, V, W, same) ==
    SwapSizes(StdSwapRawMemory(S, V.data_, W.data_, same), V, W)

\* Vector(Vector&& other): the members' default initialisers, then Swap(other)
MoveCtorBody(S, other) == SwapBody(S, NewVector(EmptyRawMemory, 0), other, FALSE)

\* a move assignment that destroys the old contents and empties rhs
MoveAssignBodySteal(S, V, rhs, same) ==
    IF same THEN [S |-> S, V |-> V, W |-> rhs]
    ELSE [S |-> Deallocate(DestroyRange(S, Buf(V), 0, Size(V)), Buf(V)),
          V |-> rhs, W |-> NewVector(EmptyRawMemory, 0)]

\* Vector& operator=(Vector&& rhs)
MoveAssignBody(S, V, rhs, same) ==
    IF same THEN [S |-> S, V |-> V, W |-> rhs] ELSE SwapBody(S, V, rhs, FALSE)

\* a ~Vector() that releases the storage and destroys no element
DtorBodyNoDestroy(S, V) == Deallocate(S, Buf(V))

\* ~Vector(): DestroyN, then ~RawMemory()
DtorBody(S, V) ==
    Deallocate(DestroyN(S, Buf(V), 0, Size(V)), Buf(V))

\* vector.h:183-191: the elements go to the new block, S.new
Transfer(S, V, so, n, do) ==
    IF UseMove THEN uninitialized_move_n(S, Buf(V), so, n, S.new, do)
    ELSE uninitialized_copy_n(S, Buf(V), so, n, S.new, do)

\* vector.h:192-194: destroy_n, data_.Swap(new_data), ~new_data; on a throw
\* only ~new_data runs
ReserveEnd(S, V, n) ==
    IF S.thrown THEN [S |-> Deallocate(S, S.new), V |-> V]
    ELSE [S |-> Deallocate(DestroyN(S, Buf(V), 0, Size(V)),
                           RawMemorySwap(V.data_, RawMemoryOf(S, n)).y.buffer_),
          V |-> [V EXCEPT !.data_ = RawMemorySwap(V.data_, RawMemoryOf(S, n)).x]]

\* a Reserve that compares new_capacity with the size
ReserveBodyBySize(S, V, n) ==
    IF S.thrown \/ n <= Size(V) THEN [S |-> S, V |-> V]
    ELSE ReserveEnd(Transfer(Allocate(S, n), V, 0, Size(V), 0), V, n)

\* Vector::Reserve
ReserveBody(S, V, n) ==
    IF S.thrown \/ n <= Capacity(V) THEN [S |-> S, V |-> V]
    ELSE ReserveEnd(Transfer(Allocate(S, n), V, 0, Size(V), 0), V, n)

\* size_ = new_size, unless the call is leaving by a throw
SetSize(S, V, n) ==
    [S |-> S, V |-> IF S.thrown THEN V ELSE [V EXCEPT !.size_ = n]]

\* vector.h:202-204, r the outcome of Reserve(new_size)
ResizeGrow(r, n) ==
    SetSize(uninitialized_value_construct_n(r.S, Buf(r.V), Size(r.V),
                                            n - Size(r.V)), r.V, n)

\* a Resize that grows through Reserve alone
ResizeBodyNoFill(S, V, n) ==
    IF n < Size(V)
    THEN SetSize(DestroyN(S, Buf(V), n, Size(V) - n), V, n)
    ELSE SetSize(ReserveBody(S, V, n).S, ReserveBody(S, V, n).V, n)

\* Vector::Resize
ResizeBody(S, V, n) ==
    IF n < Size(V)
    THEN SetSize(DestroyN(S, Buf(V), n, Size(V) - n), V, n)
    ELSE ResizeGrow(ReserveBody(S, V, n), n)

\* a PopBack that forgets the element: size_-- alone
PopBackBodyNoDestroy(S, V) == [S |-> S, V |-> [V EXCEPT !.size_ = @ - 1]]

\* Vector::PopBack
PopBackBody(S, V) ==
    [S |-> Destroy(S, Buf(V), Size(V) - 1), V |-> [V EXCEPT !.size_ = @ - 1]]

\* vector.h:301-302: PopBack(); return begin() + shift
EraseEnd(S, V, p) ==
    IF S.thrown THEN [S |-> S, V |-> V, ret |-> NoIter, path |-> ""]
    ELSE [S |-> PopBackBody(S, V).S, V |-> PopBackBody(S, V).V,
          ret |-> Iter(Buf(V), p), path |-> ""]

\* an Erase that shifts [pos + 1, end() - 1) only
EraseBodyShort(S, V, p) ==
    EraseEnd(std_move(S, Buf(V), p + 1, Max(0, Size(V) - p - 2), Buf(V), p), V, p)

\* Vector::Erase
EraseBody(S, V, p) ==
    EraseEnd(std_move(S, Buf(V), p + 1, Size(V) - p - 1, Buf(V), p), V, p)

\* vector.h:127-128: Swap(temp) and ~temp, c the outcome of Vector temp(rhs)
CopyAssignSwap(c, V) ==
    IF c.S.thrown THEN [S |-> c.S, V |-> V]
    ELSE [S |-> DtorBody(SwapBody(c.S, V, c.V, FALSE).S,
                         SwapBody(c.S, V, c.V, FALSE).W),
          V |-> SwapBody(c.S, V, c.V, FALSE).V]

\* vector.h:131-142: the storage is reused
CopyAssignInPlace(S, V, rhs) ==
    IF Size(rhs) >= Size(V)
    THEN uninitialized_copy_n(
            std_copy(S, Buf(rhs), 0, Size(V), Buf(V), 0),
            Buf(rhs), Size(V), Size(rhs) - Size(V), Buf(V), Size(V))
    ELSE DestroyN(
            std_copy(S, Buf(rhs), 0, Size(rhs), Buf(V), 0),
            Buf(V), Size(rhs), Size(V) - Size(rhs))

\* a copy assignment that always goes through a temporary copy
CopyAssignBodyAlwaysSwap(S, V, rhs, same) ==
    IF same THEN [S |-> S, V |-> V] ELSE CopyAssignSwap(CopyCtorBody(S, rhs), V)

\* Vector& operator=(const Vector& rhs)
CopyAssignBody(S, V, rhs, same) ==
    IF same THEN [S |-> S, V |-> V]
    ELSE IF Size(rhs) > Capacity(V) THEN CopyAssignSwap(CopyCtorBody(S, rhs), V)
    ELSE SetSize(CopyAssignInPlace(S, V, rhs), V, Size(rhs))

\* ---------------------------------------------------------- Vector::Emplace
\* An argument is a value the caller holds (ref = FALSE, x the value) or a
\* reference to element x of the vector itself (ref = TRUE).
Val(x) == [ref |-> FALSE, x |-> x]
Ref(i) == [ref |-> TRUE, x |-> i]
ArgValue(m, V, arg) == IF arg.ref THEN ReadAt(m, Buf(V), arg.x) ELSE arg.x

\* whether T(std::forward<Args>(args)...) may throw: "move" is T(T&&),
\* "copy" is T(const T&), "args" any other constructor
CanThrow(how) == how # "move" \/ ~is_nothrow_move_constructible

\* a growth by one cell
NewCapacityPlusOne(V) == Size(V) + 1

\* vector.h:237: the capacity of new_memory
NewCapacity(V) == IF Size(V) = 0 THEN 1 ELSE Size(V) * 2

\* vector.h:238: Construct(new_memory.GetAddress() + it_pos, args...)
ConstructNew(S, V, p, arg, how) ==
    ConstructAt(S, S.new, p, ArgValue(S.mem, V, arg), CanThrow(how))

\* vector.h:255-258: catch (...) { destroy_n(new_memory, it_pos); throw; }
CatchSuffix(S, p) ==
    IF S.thrown THEN Rethrow(DestroyRange(Caught(S), S.new, 0, p)) ELSE S

\* vector.h:251-254: the try block around the copy of [pos, end())
TrySuffix(S, V, p) ==
    IF S.thrown THEN S
    ELSE CatchSuffix(
            uninitialized_copy_n(S, Buf(V), p, Size(V) - p, S.new, p + 1), p)

\* vector.h:240-259: the body of the outer try block
TransferAround(S, V, p) ==
    IF UseMove
    THEN uninitialized_move_n(
            uninitialized_move_n(S, Buf(V), 0, p, S.new, 0),
            Buf(V), p, Size(V) - p, S.new, p + 1)
    ELSE TrySuffix(uninitialized_copy_n(S, Buf(V), 0, p, S.new, 0), V, p)

\* vector.h:261-264: catch (...) { destroy_at(new_memory + it_pos); throw; }
CatchTransfer(S, p) ==
    IF S.thrown THEN Rethrow(Destroy(Caught(S), S.new, p)) ELSE S

\* vector.h:239-264: the outer try block, entered once the element is built
TryTransfer(S, V, p) ==
    IF S.thrown THEN S ELSE CatchTransfer(TransferAround(S, V, p), p)

\* vector.h:265-269: data_.Swap(new_memory); destroy_n of the old elements;
\* size_++; return begin() + it_pos; then ~new_memory.  On a throw only
\* ~new_memory runs.
ReallocEnd(S, V, p) ==
    IF S.thrown
    THEN [S |-> Deallocate(S, S.new), V |-> V, ret |-> NoIter,
          path |-> "realloc"]
    ELSE [S |-> Deallocate(DestroyN(S, Buf(V), 0, Size(V)), Buf(V)),
          V |-> [V EXCEPT !.data_ = RawMemoryOf(S, NewCapacity(V)),
                          !.size_ = @ + 1],
          ret |-> Iter(S.new, p), path |-> "realloc"]

\* vector.h:235-270, size_ == Capacity()
EmplaceRealloc(S, V, p, arg, how) ==
    ReallocEnd(
        TryTransfer(ConstructNew(Allocate(S, NewCapacity(V)), V, p, arg, how),
                    V, p),
        V, p)

\* size_++; return const_cast<iterator>(pos)
EmplaceEnd(S, V, p, path) ==
    IF S.thrown THEN [S |-> S, V |-> V, ret |-> NoIter, path |-> path]
    ELSE [S |-> S, V |-> [V EXCEPT !.size_ = @ + 1], ret |-> Iter(Buf(V), p),
          path |-> path]

\* vector.h:274-278, pos == cend() with spare capacity
EmplaceAtEnd(S, V, p, arg, how) ==
    EmplaceEnd(ConstructAt(S, Buf(V), Size(V), ArgValue(S.mem, V, arg),
                           CanThrow(how)),
               V, p, "end")

\* vector.h:280: T temp(std::forward<Args>(args)...), an object outside
\* every buffer
TempConstruct(S, can) ==
    IF S.thrown THEN S ELSE IF can /\ S.fc = 1 THEN Throw(S) ELSE Tick(S, can)

\* vector.h:285-287: catch (...) { destroy_at(end()); } and no throw
CatchShift(S, V) ==
    IF S.thrown THEN Destroy(Caught(S), Buf(V), Size(V)) ELSE S

\* vector.h:282-287: the try block around move_backward
TryShift(S, V, p) ==
    IF S.thrown THEN S
    ELSE CatchShift(move_backward(S, Buf(V), p, Size(V) - 1 - p, Size(V)), V)

\* vector.h:281: Construct(end(), std::move(*(end() - 1)))
ConstructLast(S, V) == MoveConstruct(S, Buf(V), Size(V) - 1, Buf(V), Size(V))

\* a middle insertion without temp: the argument is read after the shift
EmplaceInsideLate(S, V, p, arg, how) ==
    EmplaceEnd(
        AssignAt(TryShift(ConstructLast(TempConstruct(S, CanThrow(how)), V),
                          V, p),
                 Buf(V), p,
                 ArgValue(TryShift(ConstructLast(TempConstruct(S, CanThrow(how)),
                                                 V), V, p).mem, V, arg),
                 ~is_nothrow_move_assignable),
        V, p, "inside")

\* vector.h:279-292, pos before end() with spare capacity; temp is read
\* from the argument before anything moves
EmplaceInside(S, V, p, arg, how) ==
    EmplaceEnd(
        AssignAt(TryShift(ConstructLast(TempConstruct(S, CanThrow(how)), V),
                          V, p),
                 Buf(V), p, ArgValue(S.mem, V, arg),
                 ~is_nothrow_move_assignable),
        V, p, "inside")

\* Vector::Emplace
EmplaceBody(S, V, p, arg, how) ==
    IF Size(V) = Capacity(V) THEN EmplaceRealloc(S, V, p, arg, how)
    ELSE IF p = Size(V) THEN EmplaceAtEnd(S, V, p, arg, how)
    ELSE EmplaceInside(S, V, p, arg, how)

\* ------------------------------------------------------------------ actions
Exists(v) == vec[v].alive
NoArg == [ref |-> FALSE, x |-> -1]
\* which fallible step of a call throws (0: none): a call has at most two
\* more fallible steps than elements it touches
Fails == 0..(Max(MaxN, Max(Size(vec["a"]), Size(vec["b"]))) + 2)

\* the growth of a reallocating Emplace stays within the model's bound
Fits(V) == Size(V) = Capacity(V) => NewCapacity(V) <= MaxCap

\* what a call changes and belongs to no vector
Outcome(S) ==
    /\ mem' = S.mem
    /\ leaked' = S.leaked
    /\ ub' = S.ub
    /\ threw' = (threw \/ S.f > 0)
    /\ UNCHANGED <<T, watch, aborted, raw, req>>

\* no call recorded
NoCall ==
    [op |-> "", v |-> "a", w |-> "a", p |-> 0, arg |-> NoArg, f |-> 0,
     thrown |-> FALSE, nC |-> 0, nD |-> 0, ret |-> NoIter, path |-> ""]

\* The call op on v (with the other vector w, the position or count p and
\* the value argument arg) returns or throws, leaving the heap of S and the
\* vectors newvec.  S.fc = 0: the step chosen to throw was reached.
\* The call is recorded in full when its member function is in watch.ops
\* and a step of it throws exactly if watch.throwing; only its vector is
\* recorded when the member function is in watch.brief.
\* last.f: the step that threw; last.thrown: the call left by an exception.
Done(op, v, w, p, arg, S, newvec, ret, path) ==
    /\ ~ub
    /\ ~aborted
    /\ ~S.oom
    /\ S.fc = 0
    /\ Outcome(S)
    /\ vec' = newvec
    /\ last' = IF op \in watch.ops /\ (S.f > 0) = watch.throwing
               THEN [op |-> op, v |-> v, w |-> w, p |-> p, arg |-> arg,
                     f |-> S.f, thrown |-> S.thrown, nC |-> S.nC, nD |-> S.nD,
                     ret |-> ret, path |-> path]
               ELSE IF op \in watch.brief
               THEN [NoCall EXCEPT !.op = "call", !.v = v]
               ELSE NoCall

\* a call on v alone, with outcome r
Done1(op, v, p, arg, r) ==
    Done(op, v, v, p, arg, r.S, [vec EXCEPT ![v] = r.V], NoIter, "")
\* a call on v with the argument w, with outcome r
Done2(op, v, w, r) ==
    Done(op, v, w, 0, NoArg, r.S, [vec EXCEPT ![w] = r.W, ![v] = r.V], NoIter, "")
\* a call on v that returns an iterator, with outcome r
DoneIter(op, v, p, arg, r) ==
    Done(op, v, v, p, arg, r.S, [vec EXCEPT ![v] = r.V], r.ret, r.path)

\* Vector()
DefaultCtor(v) ==
    /\ ~Exists(v)
    /\ Done("Vector()", v, v, 0, NoArg, Start(0),
            [vec EXCEPT ![v] = NewVector(EmptyRawMemory, 0)], NoIter, "")

\* Vector(size_t)
SizedCtor(v, n, f) ==
    ~Exists(v) /\ Done1("Vector(n)", v, n, NoArg, SizedCtorBody(Start(f), n))

\* Vector(const Vector&)
CopyCtor(v, w, f) ==
    /\ ~Exists(v) /\ Exists(w) /\ is_copy_constructible
    /\ Done("Vector(const&)", v, w, 0, NoArg, CopyCtorBody(Start(f), vec[w]).S,
            [vec EXCEPT ![v] = CopyCtorBody(Start(f), vec[w]).V], NoIter, "")

\* Vector(Vector&&)
MoveCtor(v, w) ==
    /\ ~Exists(v) /\ Exists(w)
    /\ Done2("Vector(&&)", v, w, MoveCtorBody(Start(0), vec[w]))

\* ~Vector()
Dtor(v) ==
    /\ Exists(v)
    /\ Done("~Vector", v, v, 0, NoArg, DtorBody(Start(0), vec[v]),
            [vec EXCEPT ![v] = NoVector], NoIter, "")

\* operator=(const Vector&)
CopyAssign(v, w, f) ==
    /\ Exists(v) /\ Exists(w) /\ is_copy_constructible
    /\ Done("=(const&)", v, w, 0, NoArg,
            CopyAssignBody(Start(f), vec[v], vec[w], v = w).S,
            [vec EXCEPT ![v] = CopyAssignBody(Start(f), vec[v], vec[w], v = w).V],
            NoIter, "")

\* operator=(Vector&&)
MoveAssign(v, w) ==
    /\ Exists(v) /\ Exists(w)
    /\ Done2("=(&&)", v, w, MoveAssignBody(Start(0), vec[v], vec[w], v = w))

\* Swap(Vector&)
Swap(v, w) ==
    /\ Exists(v) /\ Exists(w)
    /\ Done2("Swap", v, w, SwapBody(Start(0), vec[v], vec[w], v = w))

\* Reserve(size_t)
Reserve(v, n, f) ==
    Exists(v) /\ Done1("Reserve", v, n, NoArg, ReserveBody(Start(f), vec[v], n))

\* Resize(size_t)
Resize(v, n, f) ==
    Exists(v) /\ Done1("Resize", v, n, NoArg, ResizeBody(Start(f), vec[v], n))

\* the call Emplace(begin() + p, ...), made directly or through a wrapper
EmplaceCall(v, p, arg, how, f) ==
    /\ Exists(v) /\ Fits(vec[v])
    /\ p \in 0..Size(vec[v])
    /\ arg.ref => arg.x \in 0..(Size(vec[v]) - 1)
    /\ DoneIter("Emplace", v, p, arg, EmplaceBody(Start(f), vec[v], p, arg, how))

\* Emplace(const_iterator, Args&&...)
Emplace(v, p, x, f) == EmplaceCall(v, p, Val(x), "args", f)

\* Insert(const_iterator, const T&)
Insert(v, p, arg, f) == is_copy_constructible /\ EmplaceCall(v, p, arg, "copy", f)

\* Insert(const_iterator, T&&)
InsertMove(v, p, x, f) == EmplaceCall(v, p, Val(x), "move", f)

\* EmplaceBack(Args&&...)
EmplaceBack(v, x, f) == EmplaceCall(v, Size(vec[v]), Val(x), "args", f)

\* PushBack(const T&)
PushBack(v, arg, f) ==
    is_copy_constructible /\ EmplaceCall(v, Size(vec[v]), arg, "copy", f)

\* PushBack(T&&)
PushBackMove(v, x, f) == EmplaceCall(v, Size(vec[v]), Val(x), "move", f)

\* Erase(const_iterator)
Erase(v, p, f) ==
    /\ Exists(v)
    /\ p \in 0..(Size(vec[v]) - 1)
    /\ DoneIter("Erase", v, p, NoArg, EraseBody(Start(f), vec[v], p))

\* PopBack()
PopBack(v) ==
    /\ Exists(v)
    /\ Size(vec[v]) > 0
    /\ Done1("PopBack", v, 0, NoArg, PopBackBody(Start(0), vec[v]))

\* v[i] = x through T& operator[](size_t)
WriteAt(v, i, x, f) ==
    /\ Exists(v)
    /\ i \in 0..(Size(vec[v]) - 1)
    /\ Done("[]=", v, v, i, Val(x),
            AssignAt(Start(f), Buf(vec[v]), i, x, TRUE), vec, NoIter, "")

\* RawMemory::operator[] in a debug build: assert(index < capacity_), then
\* a reference to buffer_[index]
RawMemoryAt(d, i) == [ok |-> i < d.capacity_, ref |-> Iter(d.buffer_, i)]

\* const T& Vector::operator[](size_t) const: return data_[index]
IndexConstBody(V, i) == RawMemoryAt(V.data_, i)

\* T& Vector::operator[](size_t): assert(index < size_); return data_[index]
IndexBody(V, i) ==
    IF i < Size(V) THEN RawMemoryAt(V.data_, i) ELSE [ok |-> FALSE, ref |-> NoIter]

\* A failed assert calls abort(): the program ends and none of its objects
\* remains.  The call is recorded, if watched, with path "assert".
Abort(op, v, i) ==
    /\ aborted' = TRUE
    /\ vec' = [u \in Vecs |-> NoVector]
    /\ mem' = [a \in Addrs |-> NoBlock]
    /\ leaked' = 0
    /\ ub' = FALSE
    /\ threw' = FALSE
    /\ last' = IF op \in watch.ops /\ ~watch.throwing
               THEN [NoCall EXCEPT !.op = op, !.v = v, !.p = i,
                                   !.path = "assert"]
               ELSE NoCall
    /\ UNCHANGED <<T, watch, raw, req>>

\* the access v[i], with outcome r: a reference is returned or the assert
\* fails
Access(op, v, i, r) ==
    /\ Exists(v)
    /\ IF r.ok THEN Done(op, v, v, i, NoArg, Start(0), vec, r.ref, "")
       ELSE ~ub /\ ~aborted /\ Abort(op, v, i)

\* v[i] on a Vector
Index(v, i) == Access("[]", v, i, IndexBody(vec[v], i))

\* v[i] on a const Vector
IndexConst(v, i) == Access("[] const", v, i, IndexConstBody(vec[v], i))

\* ------------------------------------------------- RawMemory on its own
\* A member function of RawMemory called on r (with the other object w and
\* the capacity p) returns, leaving the heap of S and the objects newraw.
RawDone(op, r, w, p, S, newraw) ==
    /\ ~ub
    /\ ~aborted
    /\ ~S.oom
    /\ S.fc = 0
    /\ mem' = S.mem
    /\ leaked' = S.leaked
    /\ ub' = S.ub
    /\ raw' = newraw
    /\ last' = IF op \in watch.ops
               THEN [NoCall EXCEPT !.op = op, !.v = r, !.w = w, !.p = p]
               ELSE NoCall
    /\ UNCHANGED <<T, vec, threw, aborted, req, watch>>

RawAlive(d) == [alive |-> TRUE, data_ |-> d]

\* RawMemory r;
RawDefaultCtor(r) ==
    /\ ~raw[r].alive
    /\ RawDone("RawMemory()", r, r, 0, Start(0),
               [raw EXCEPT ![r] = RawAlive(EmptyRawMemory)])

RawSizedCtorEnd(r, n, S) ==
    RawDone("RawMemory(n)", r, r, n, S,
            [raw EXCEPT ![r] = RawAlive(RawMemoryOf(S, n))])

\* RawMemory r(n);
RawSizedCtor(r, n) ==
    /\ ~raw[r].alive
    /\ RawSizedCtorEnd(r, n, Allocate(Start(0), n))

\* RawMemory r(std::move(w));
RawMoveCtor(r, w) ==
    /\ ~raw[r].alive
    /\ raw[w].alive
    /\ RawDone("RawMemory(&&)", r, w, 0, Start(0),
               [raw EXCEPT ![r] = RawAlive(RawMemoryMoveCtor(raw[w].data_).this),
                           ![w].data_ = RawMemoryMoveCtor(raw[w].data_).other])

RawMoveAssignEnd(r, w, res) ==
    RawDone("RawMemory=(&&)", r, w, raw[r].data_.capacity_, res.S,
            [raw EXCEPT ![w].data_ = res.rhs, ![r].data_ = res.this])

\* r = std::move(w);  p records the capacity r had
RawMoveAssign(r, w) ==
    /\ raw[r].alive
    /\ raw[w].alive
    /\ RawMoveAssignEnd(r, w, RawMemoryMoveAssign(Start(0), raw[r].data_,
                                                  raw[w].data_, r = w))

\* r.Swap(w);
RawSwap(r, w) ==
    /\ raw[r].alive
    /\ raw[w].alive
    /\ RawDone("RawMemory::Swap", r, w, 0, Start(0),
               [raw EXCEPT ![r].data_ = RawMemorySwap(raw[r].data_, raw[w].data_).x,
                           ![w].data_ = RawMemorySwap(raw[r].data_, raw[w].data_).y])

\* ~RawMemory()
RawDtor(r) ==
    /\ raw[r].alive
    /\ RawDone("~RawMemory", r, r, 0, Deallocate(Start(0), raw[r].data_.buffer_),
               [raw EXCEPT ![r] = NoRawMemory])

RawOps == {"RawMemory()", "RawMemory(n)", "RawMemory(&&)", "RawMemory=(&&)",
           "RawMemory::Swap", "~RawMemory"}

NextRaw ==
    \E r \in RawObjs :
        \/ RawDefaultCtor(r)
        \/ \E n \in 0..MaxN : RawSizedCtor(r, n)
        \/ \E w \in RawObjs : RawMoveCtor(r, w) \/ RawMoveAssign(r, w) \/ RawSwap(r, w)
        \/ RawDtor(r)

\* ------------------------------------------------ sizes in size_t
\* size_t holds the values 0 .. 2^w - 1; its arithmetic is modulo 2^w
WordSize == 2 ^ WordBits
size_t == 0..(WordSize - 1)
\* sizeof(T) for the element types tried
SizeOfs == {1, 2, 4, 8}

\* the size_t product x * y
Times(x, y) == (x * y) % WordSize

\* RawMemory::Allocate(n): the bytes asked of operator new (none for n = 0)
AllocateBytes(n, sizeofT) == IF n # 0 THEN Times(n, sizeofT) ELSE 0

\* vector.h:237 in size_t: size_ == 0 ? 1 : size_ * 2
NewCapacityWord(size) ==
    NewCapacity(NewVector(EmptyRawMemory, size)) % WordSize

\* n: the count or the size the call starts from; capacity_, bytes: the
\* capacity recorded and the bytes of the block obtained
NoRequest ==
    [op |-> "", n |-> 0, sizeofT |-> 1, capacity_ |-> 0, bytes |-> 0]
Requests == {[NoRequest EXCEPT !.n = n, !.sizeofT = z] : n \in size_t, z \in SizeOfs}

\* RawMemory(n), as constructed by Vector(n), Reserve(n) and Resize(n):
\* buffer_(Allocate(capacity)), capacity_(capacity)
RawMemoryN ==
    /\ req.op = ""
    /\ req' = [req EXCEPT !.op = "RawMemory(n)", !.capacity_ = req.n,
                          !.bytes = AllocateBytes(req.n, req.sizeofT)]
    /\ UNCHANGED <<T, vec, mem, leaked, ub, threw, aborted, raw, watch, last>>

\* vector.h:237, RawMemory<T> new_memory(size_ == 0 ? 1 : size_ * 2), on a
\* full Vector of n elements; its own block holds the n elements
EmplaceGrowth ==
    /\ req.op = ""
    /\ req.n * req.sizeofT < WordSize
    /\ req' = [req EXCEPT !.op = "Emplace", !.capacity_ = NewCapacityWord(req.n),
                          !.bytes = AllocateBytes(NewCapacityWord(req.n), req.sizeofT)]
    /\ UNCHANGED <<T, vec, mem, leaked, ub, threw, aborted, raw, watch, last>>

NextWord == RawMemoryN \/ EmplaceGrowth

\* ------------------------------------------------------------ specification
Watching(ops, throwing, brief) ==
    [ops |-> ops, throwing |-> throwing, brief |-> brief]

\* no object constructed yet; W: the calls watched
InitObjects(W) ==
    /\ vec = [v \in Vecs |-> NoVector]
    /\ mem = [a \in Addrs |-> NoBlock]
    /\ leaked = 0
    /\ ub = FALSE
    /\ threw = FALSE
    /\ aborted = FALSE
    /\ raw = [r \in RawObjs |-> NoRawMemory]
    /\ watch = W
    /\ last = NoCall

\* no Vector constructed yet; W: the calls watched
InitWatching(W) ==
    /\ T \in Types
    /\ req = NoRequest
    /\ InitObjects(W)

Init == InitWatching(Watching({}, FALSE, {}))

Positions == 0..MaxCap
\* the arguments of a const T& parameter in a call on V: a value, or a
\* reference to an element of V itself
Args(V) == {Val(x) : x \in Values} \cup {Ref(i) : i \in 0..(Size(V) - 1)}

\* Calls are made until a step of one throws; after that the vectors are
\* only destroyed.
Running == ~threw

\* the calls on v that cannot throw
NoThrowCall(v) ==
    \/ DefaultCtor(v)
    \/ PopBack(v)
    \/ \E w \in Vecs : MoveCtor(v, w) \/ MoveAssign(v, w) \/ Swap(v, w)
    \/ \E i \in Positions : Index(v, i) \/ IndexConst(v, i)

\* calls in which nothing throws
Next ==
    \E v \in Vecs :
        \/ Dtor(v)
        \/ Running /\ NoThrowCall(v)
        \/ \E w \in Vecs : CopyCtor(v, w, 0) \/ CopyAssign(v, w, 0)
        \/ \E n \in 0..MaxN :
            SizedCtor(v, n, 0) \/ Reserve(v, n, 0) \/ Resize(v, n, 0)
        \/ \E x \in Values :
            \/ EmplaceBack(v, x, 0)
            \/ PushBackMove(v, x, 0)
            \/ \E p \in Positions :
                Emplace(v, p, x, 0) \/ InsertMove(v, p, x, 0) \/ WriteAt(v, p, x, 0)
        \/ \E arg \in Args(vec[v]) :
            \/ PushBack(v, arg, 0)
            \/ \E p \in Positions : Insert(v, p, arg, 0)
        \/ \E p \in Positions : Erase(v, p, 0)

Spec == Init /\ [][Next]_vars
SpecEmplace == InitWatching(Watching({"Emplace"}, FALSE, {})) /\ [][Next]_vars
SpecErase == InitWatching(Watching({"Erase"}, FALSE, {})) /\ [][Next]_vars

\* calls in which one fallible step (an allocation or an operation of T) may
\* throw
NextF ==
    \E v \in Vecs :
        \/ Dtor(v)
        \/ Running /\ NoThrowCall(v)
        \/ /\ Running
           /\ \E f \in Fails :
                \/ \E w \in Vecs : CopyCtor(v, w, f) \/ CopyAssign(v, w, f)
                \/ \E n \in 0..MaxN :
                    SizedCtor(v, n, f) \/ Reserve(v, n, f) \/ Resize(v, n, f)
                \/ \E x \in Values :
                    \/ EmplaceBack(v, x, f)
                    \/ PushBackMove(v, x, f)
                    \/ \E p \in Positions :
                        \/ Emplace(v, p, x, f)
                        \/ InsertMove(v, p, x, f)
                        \/ WriteAt(v, p, x, f)
                \/ \E arg \in Args(vec[v]) :
                    \/ PushBack(v, arg, f)
                    \/ \E p \in Positions : Insert(v, p, arg, f)
                \/ \E p \in Positions : Erase(v, p, f)

\* the calls that take a new block, with a step that throws
SpecThrow ==
    InitWatching(Watching({"Reserve", "Resize", "Emplace", "=(const&)"}, TRUE, {}))
        /\ [][NextF]_vars
SpecMoveCtor ==
    InitWatching(Watching({"Vector(&&)"}, FALSE, {})) /\ [][Next]_vars
SpecMoveAssign ==
    InitWatching(Watching({"=(&&)"}, FALSE, {})) /\ [][Next]_vars
\* copy construction in full, and which vector a mutating call is made on
SpecCopy ==
    InitWatching(Watching({"Vector(const&)"}, FALSE,
                          {"[]=", "Emplace", "Erase", "PopBack", "Resize"}))
        /\ [][Next]_vars
SpecCopyAssign ==
    InitWatching(Watching({"=(const&)"}, FALSE, {})) /\ [][Next]_vars
SpecReserve == InitWatching(Watching({"Reserve"}, FALSE, {})) /\ [][Next]_vars
SpecResize == InitWatching(Watching({"Resize"}, FALSE, {})) /\ [][Next]_vars
SpecRaw == InitWatching(Watching(RawOps, FALSE, {})) /\ [][NextRaw]_vars
SpecWord ==
    /\ T = "NothrowMove" /\ req \in Requests /\ InitObjects(Watching({}, FALSE, {}))
    /\ [][NextWord]_vars
SpecIndex ==
    InitWatching(Watching({"[]", "[] const"}, FALSE, {})) /\ [][Next]_vars
SpecDtor == InitWatching(Watching({"~Vector"}, FALSE, {})) /\ [][Next]_vars

\* ------------------------------------------------------------- properties
\* the elements of V, in order, in heap m
ElemsOf(m, V) == [i \in 0..(Size(V) - 1) |-> ReadAt(m, Buf(V), i)]
\* in heap m cell i of V's buffer exists and holds no live object
RawCell(m, V, i) ==
    Buf(V) # NullPtr /\ i \in DOMAIN m[Buf(V)] /\ m[Buf(V)][i] = Raw
\* the representation invariant of V in heap m
ValidVector(m, V) ==
    /\ 0 <= Size(V)
    /\ Size(V) <= Capacity(V)
    /\ \A i \in 0..(Capacity(V) - 1) :
          IF i < Size(V) THEN Live(m, Buf(V), i) ELSE RawCell(m, V, i)
\* the live objects in the heap, and those whose storage was released
LiveObjects ==
    LET RECURSIVE Sum(_)
        Sum(a) == IF a = 0 THEN 0 ELSE LiveIn(mem[a]) + Sum(a - 1)
    IN Sum(NumAddrs) + leaked
SumOfSizes == Size(vec["a"]) + Size(vec["b"])

\* C1: after every operation that does not fail, each Vector has
\* 0 <= size <= capacity, a live object in every cell below size and no
\* live object in the cells from size up to capacity.
C1_Invariant == \A v \in Vecs : Exists(v) => ValidVector(mem, vec[v])

\* one Vector partly filled, the other full
C1_Witness ==
    /\ Exists("a") /\ Exists("b")
    /\ 0 < Size(vec["a"]) /\ Size(vec["a"]) < Capacity(vec["a"])
    /\ Size(vec["b"]) = Capacity(vec["b"]) /\ Size(vec["b"]) > 1

\* C7: no element object is destroyed twice, the live objects are as many
\* as the sizes of the existing Vectors add up to, and none is left when
\* every Vector has been destroyed.
C7_Lifetimes ==
    /\ ~ub
    /\ LiveObjects = SumOfSizes
    /\ (\A v \in Vecs : ~Exists(v)) => LiveObjects = 0

\* the last Vector is destroyed, with its elements
C7_Witness ==
    /\ last.op = "~Vector"
    /\ last.nD > 1
    /\ \A v \in Vecs : ~Exists(v)

\* the call just made is a recorded call of op that returned
Returned(op) == last'.op = op /\ ~last'.thrown
\* the vector, before and after, of the call just made
Self == vec[last'.v]
Self1 == vec'[last'.v]

\* C2: a successful Insert/Emplace of a value at index p in [0, size]
\* makes the size one larger, leaves the elements below p where they were,
\* puts the value at p and the elements formerly at [p, size) one index
\* higher in the same order, and returns an iterator to index p of the
\* current buffer, on the reallocating path (size == capacity before the
\* call) as on the others.
C2_Emplace ==
    [][Returned("Emplace") =>
        /\ Size(Self1) = Size(Self) + 1
        /\ \A i \in 0..(last'.p - 1) :
              ElemsOf(mem', Self1)[i] = ElemsOf(mem, Self)[i]
        /\ ElemsOf(mem', Self1)[last'.p] = ArgValue(mem, Self, last'.arg)
        /\ \A i \in last'.p..(Size(Self) - 1) :
              ElemsOf(mem', Self1)[i + 1] = ElemsOf(mem, Self)[i]
        /\ last'.ret = Iter(Buf(Self1), last'.p)
        /\ (last'.path = "realloc") = (Size(Self) = Capacity(Self))
        /\ ValidVector(mem', Self1)]_vars

\* an insertion in the middle of a full Vector, which reallocates
C2_Witness ==
    /\ last.op = "Emplace"
    /\ last.path = "realloc"
    /\ 0 < last.p
    /\ last.p < Size(vec[last.v]) - 1
    /\ ElemsOf(mem, vec[last.v])[last.p] # ElemsOf(mem, vec[last.v])[last.p + 1]

\* C3: Erase at index p in [0, size) makes the size one smaller, leaves
\* the elements below p where they were, moves each element above p one
\* index down in order, destroys exactly one object, keeps the capacity and
\* the buffer, and returns an iterator to index p, which is end() when p
\* was the last index.
C3_Erase ==
    [][Returned("Erase") =>
        /\ Size(Self1) = Size(Self) - 1
        /\ \A i \in 0..(last'.p - 1) :
              ElemsOf(mem', Self1)[i] = ElemsOf(mem, Self)[i]
        /\ \A i \in (last'.p + 1)..(Size(Self) - 1) :
              ElemsOf(mem', Self1)[i - 1] = ElemsOf(mem, Self)[i]
        /\ last'.nD = 1
        /\ Self1.data_ = Self.data_
        /\ last'.ret = Iter(Buf(Self), last'.p)
        /\ (last'.p = Size(Self) - 1 => last'.ret = end(Self1))
        /\ ValidVector(mem', Self1)]_vars

\* an element with two different ones after it is erased
C3_Witness ==
    /\ last.op = "Erase"
    /\ last.p + 1 < Size(vec[last.v])
    /\ ElemsOf(mem, vec[last.v])[last.p] # ElemsOf(mem, vec[last.v])[last.p + 1]

\* the call just made transfers the elements to a new block: Reserve above
\* the capacity, Emplace with size == capacity, or copy assignment from a
\* source longer than the capacity
Reallocating ==
    \/ last'.op = "Reserve" /\ last'.p > Capacity(Self)
    \/ last'.op = "Emplace" /\ Size(Self) = Capacity(Self)
    \/ last'.op = "=(const&)" /\ Size(vec[last'.w]) > Capacity(Self)

\* C4: with a copy-constructible type that is not nothrow-move-
\* constructible, when an element copy throws in a call that transfers the
\* elements to a new block, whichever copy it is, the call throws and the
\* Vector's size, capacity, buffer and element values are those before the
\* call.  (Step 1 of such a call is the allocation, the later steps the
\* element constructions.)
C4_StrongGuarantee ==
    [][(/\ Reallocating
        /\ last'.f > 1
        /\ is_copy_constructible
        /\ ~is_nothrow_move_constructible) =>
        /\ last'.thrown
        /\ Self1 = Self
        /\ ElemsOf(mem', Self1) = ElemsOf(mem, Self)
        /\ vec' = vec
        /\ mem' = mem
        /\ leaked' = leaked]_vars

\* the first copy of the suffix throws in a reallocating Emplace, after the
\* new element and a prefix were constructed
C4_Witness ==
    /\ last.op = "Emplace"
    /\ last.path = "realloc"
    /\ T = "ThrowingMove"
    /\ last.thrown
    /\ last.p > 0
    /\ last.p < Size(vec[last.v])
    /\ last.f = 3 + last.p

\* C5: in a reallocating Emplace, when the transfer of the suffix
\* [position, end) throws after the prefix [begin, position) was
\* transferred, by move or by copy construction, the prefix elements in the
\* new block and the new element are destroyed before the exception leaves:
\* every object constructed by the call is destroyed, and none is live in
\* the new block when it is released.  (Steps 1 and 2 are the allocation and
\* the new element, steps 3 to 2 + p the prefix.)
C5_SuffixFailure ==
    [][(/\ last'.op = "Emplace"
        /\ last'.path = "realloc"
        /\ last'.p > 0
        /\ last'.f > 2 + last'.p) =>
        /\ last'.thrown
        /\ last'.nD = last'.nC
        /\ leaked' = leaked]_vars

\* C6: when a move assignment throws during the shift to the right of an
\* Emplace before end() with spare capacity, the Vector is left valid:
\* 0 <= size <= capacity, a live object in every cell below size, none in
\* the cells from size up to capacity, so that ~Vector destroys no object
\* twice.  (Steps 1 and 2 are temp and the object built at end(), the
\* shift's size - 1 - p assignments follow.)
C6_ShiftFailure ==
    [][(/\ last'.op = "Emplace"
        /\ last'.path = "inside"
        /\ last'.f > 2
        /\ last'.f <= 1 + Size(Self) - last'.p) =>
        /\ ValidVector(mem', Self1)
        /\ ~DtorBody([Start(0) EXCEPT !.mem = mem'], Self1).ub]_vars

\* the other vector, before and after, of the call just made
Other == vec[last'.w]
Other1 == vec'[last'.w]

\* C8: move construction leaves the source with size 0, capacity 0 and a
\* null buffer, and gives the new Vector the source's former size,
\* capacity, buffer and elements in order; no element object is
\* constructed, moved or destroyed.
C8_MoveCtor ==
    [][last'.op = "Vector(&&)" =>
        /\ Size(Other1) = 0
        /\ Other1.data_ = EmptyRawMemory
        /\ Size(Self1) = Size(Other)
        /\ Self1.data_ = Other.data_
        /\ ElemsOf(mem', Self1) = ElemsOf(mem, Other)
        /\ mem' = mem
        /\ last'.nC = 0
        /\ last'.nD = 0]_vars

\* a Vector is move-constructed from one with elements and spare capacity
C8_Witness ==
    /\ last.op = "Vector(&&)"
    /\ Size(vec[last.v]) > 0
    /\ Size(vec[last.v]) < Capacity(vec[last.v])
    /\ Exists(last.w)

\* C9, as stated: after a = std::move(b) between two distinct Vectors, b
\* has size 0 and a has b's former size and elements in order.
C9_SourceEmptied ==
    [][(last'.op = "=(&&)" /\ last'.v # last'.w) =>
        /\ Size(Other1) = 0
        /\ Size(Self1) = Size(Other)
        /\ ElemsOf(mem', Self1) = ElemsOf(mem, Other)]_vars

\* C9, amended: after a = std::move(b) between two distinct Vectors, a has
\* b's former size, capacity, buffer and elements in order, and b has a's
\* former size, capacity, buffer and elements in order; no element object
\* is touched.
C9_MoveAssign ==
    [][(last'.op = "=(&&)" /\ last'.v # last'.w) =>
        /\ Self1 = Other
        /\ ElemsOf(mem', Self1) = ElemsOf(mem, Other)
        /\ Other1 = Self
        /\ ElemsOf(mem', Other1) = ElemsOf(mem, Self)
        /\ mem' = mem]_vars

\* a Vector with elements was move-assigned one of another size
C9_Witness ==
    /\ last.op = "=(&&)"
    /\ last.v # last.w
    /\ Size(vec[last.w]) > 0
    /\ Size(vec[last.v]) > Size(vec[last.w])

\* V and W have no storage in common
Apart(V, W) == Buf(V) = NullPtr \/ Buf(V) # Buf(W)
\* the vector the call just made is not made on
Frame == CHOOSE o \in Vecs : o # last'.v

\* C10: copy construction from a source of length N gives a Vector of size
\* N and capacity N, with storage of its own and elements equal to the
\* source's at every index, and leaves the source unchanged; a later call
\* that mutates one of the two (element write, Insert, Erase, PushBack,
\* PopBack, Resize) leaves the other's size, capacity and elements
\* unchanged.
C10_CopyCtor ==
    [][/\ Returned("Vector(const&)") =>
            /\ Size(Self1) = Size(Other)
            /\ Capacity(Self1) = Size(Other)
            /\ Apart(Self1, Other)
            /\ Size(Other) > 0 => Buf(Self1) # NullPtr
            /\ ElemsOf(mem', Self1) = ElemsOf(mem, Other)
            /\ Other1 = Other
            /\ ElemsOf(mem', Other1) = ElemsOf(mem, Other)
       /\ last'.op = "call" =>
            /\ vec'[Frame] = vec[Frame]
            /\ ElemsOf(mem', vec'[Frame]) = ElemsOf(mem, vec[Frame])
            /\ Exists(Frame) => Apart(vec'[Frame], Self1)]_vars

\* a Vector with spare capacity is copied
C10_Witness ==
    /\ last.op = "Vector(const&)"
    /\ Size(vec[last.w]) > 1
    /\ Size(vec[last.w]) < Capacity(vec[last.w])
    /\ Size(vec[last.v]) = Size(vec[last.w])

\* C11: a successful copy assignment a = b between distinct Vectors leaves
\* a with b's size and b's elements at every index and b unchanged; when
\* b's size <= a's capacity, a keeps its capacity and buffer, exactly
\* max(0, old a.size - b.size) objects are destroyed and
\* max(0, b.size - old a.size) constructed; when b's size > a's capacity,
\* a's capacity becomes b's size.  a = a changes nothing.
C11_CopyAssign ==
    [][Returned("=(const&)") =>
        IF last'.v = last'.w
        THEN vec' = vec /\ mem' = mem /\ last'.nC = 0 /\ last'.nD = 0
        ELSE /\ Size(Self1) = Size(Other)
             /\ ElemsOf(mem', Self1) = ElemsOf(mem, Other)
             /\ Other1 = Other
             /\ ElemsOf(mem', Other1) = ElemsOf(mem, Other)
             /\ ValidVector(mem', Self1)
             /\ IF Size(Other) <= Capacity(Self)
                THEN /\ Self1.data_ = Self.data_
                     /\ last'.nD = Max(0, Size(Self) - Size(Other))
                     /\ last'.nC = Max(0, Size(Other) - Size(Self))
                ELSE Capacity(Self1) = Size(Other)]_vars

\* a longer Vector with spare capacity was assigned a shorter, non-empty one
C11_Witness ==
    /\ last.op = "=(const&)"
    /\ last.v # last.w
    /\ last.nD > 0
    /\ Size(vec[last.v]) > 0
    /\ Size(vec[last.v]) < Capacity(vec[last.v])

\* C12: an Emplace/Insert/PushBack reallocates exactly when size ==
\* capacity before the call, and the capacity is then max(1, 2 * old
\* capacity), in a new buffer; when size < capacity the capacity and the
\* buffer are unchanged.
C12_Doubling ==
    [][Returned("Emplace") =>
        IF Size(Self) = Capacity(Self)
        THEN /\ last'.path = "realloc"
             /\ Capacity(Self1) = Max(1, 2 * Capacity(Self))
             /\ Buf(Self1) # Buf(Self)
        ELSE /\ last'.path # "realloc"
             /\ Self1.data_ = Self.data_]_vars

\* a full Vector of capacity 2 grew to capacity 4
C12_Witness ==
    /\ last.op = "Emplace"
    /\ last.path = "realloc"
    /\ Capacity(vec[last.v]) = 4
    /\ Size(vec[last.v]) = 3

\* C13: Reserve(n) with n <= capacity changes nothing; Reserve(n) with
\* n > capacity makes the capacity exactly n and leaves the size and the
\* element value at every index unchanged.  Reserve never decreases the
\* capacity.
C13_Reserve ==
    [][Returned("Reserve") =>
        /\ Capacity(Self1) >= Capacity(Self)
        /\ IF last'.p <= Capacity(Self)
           THEN vec' = vec /\ mem' = mem
           ELSE /\ Capacity(Self1) = last'.p
                /\ Size(Self1) = Size(Self)
                /\ ElemsOf(mem', Self1) = ElemsOf(mem, Self)
                /\ ValidVector(mem', Self1)]_vars

\* a Vector with an element was given a larger capacity
C13_Witness ==
    /\ last.op = "Reserve"
    /\ last.nC > 0
    /\ Capacity(vec[last.v]) = last.p
    /\ Size(vec[last.v]) < last.p

\* C14: a successful Resize(n) leaves size n and the elements below
\* min(old size, n) unchanged; when n < old size exactly old size - n
\* objects are destroyed and the capacity is unchanged; when n >= old size
\* the cells [old size, n) hold newly default-constructed objects and the
\* capacity is max(old capacity, n).
C14_Resize ==
    [][Returned("Resize") =>
        /\ Size(Self1) = last'.p
        /\ \A i \in 0..(Min(Size(Self), last'.p) - 1) :
              ElemsOf(mem', Self1)[i] = ElemsOf(mem, Self)[i]
        /\ ValidVector(mem', Self1)
        /\ IF last'.p < Size(Self)
           THEN /\ last'.nD = Size(Self) - last'.p
                /\ Self1.data_ = Self.data_
           ELSE /\ \A i \in Size(Self)..(last'.p - 1) :
                      ElemsOf(mem', Self1)[i] = DefaultValue
                /\ Capacity(Self1) = Max(Capacity(Self), last'.p)]_vars

\* a Resize grew a Vector past its capacity, keeping a non-default element
C14_Witness ==
    /\ last.op = "Resize"
    /\ Size(vec[last.v]) = 2
    /\ ElemsOf(mem, vec[last.v])[0] # DefaultValue
    /\ last.nC = 2

\* the call just made asks for raw storage: a reallocating call, or Resize
\* above the capacity
Allocating ==
    \/ Reallocating
    \/ last'.op = "Resize" /\ last'.p > Capacity(Self)

\* C15: when the request for raw storage fails in Reserve or Resize above
\* the capacity, in Emplace/Insert/PushBack with size == capacity or in
\* copy assignment from a source longer than the capacity, the call throws
\* and the Vector's size, capacity, buffer and elements are those before
\* the call, no element having been constructed, moved or destroyed.  (The
\* request is the first fallible step of each of these calls.)
C15_AllocationFailure ==
    [][(Allocating /\ last'.f = 1) =>
        /\ last'.thrown
        /\ vec' = vec
        /\ mem' = mem
        /\ leaked' = leaked
        /\ last'.nC = 0
        /\ last'.nD = 0]_vars

\* the request failed in a Resize of a Vector with elements
C15_Witness ==
    /\ last.op = "Resize"
    /\ last.f = 1
    /\ last.thrown
    /\ Size(vec[last.v]) > 0
    /\ last.p > Capacity(vec[last.v])

\* C18: whenever an operation of the element type (the construction of the
\* new value, a move or copy construction of the transfer, a move
\* assignment of the shift) throws inside Emplace/Insert/PushBack, on any
\* of the three paths, the call throws: it returns no iterator and does
\* not increment the size.  (On the reallocating path step 1 is the
\* request for storage, not an operation of the element type.)
C18_Propagation ==
    [][(/\ last'.op = "Emplace"
        /\ last'.f > 0
        /\ ~(last'.path = "realloc" /\ last'.f = 1)) =>
        /\ last'.thrown
        /\ last'.ret = NoIter
        /\ Size(Self1) = Size(Self)]_vars

\* C19: when the value passed by const reference to Insert/PushBack/Emplace
\* is element i of the same Vector, the inserted element equals the value
\* that element had before the call, for every i below size and every
\* position up to size, on each of the three paths, and the other elements
\* keep their values in shifted order.
C19_Aliasing ==
    [][(Returned("Emplace") /\ last'.arg.ref) =>
        /\ ElemsOf(mem', Self1)[last'.p] = ElemsOf(mem, Self)[last'.arg.x]
        /\ \A i \in 0..(Size(Self) - 1) :
              ElemsOf(mem', Self1)[IF i < last'.p THEN i ELSE i + 1] =
                  ElemsOf(mem, Self)[i]]_vars

\* an element that the insertion shifted was inserted before itself, with
\* spare capacity
C19_Witness ==
    /\ last.op = "Emplace"
    /\ last.arg.ref
    /\ last.path = "inside"
    /\ last.arg.x >= last.p
    /\ ElemsOf(mem, vec[last.v])[last.p] # ElemsOf(mem, vec[last.v])[last.arg.x]

\* C16: in a debug build every access v[i] with i >= size, through the
\* mutable operator[] and through the const one, also for i in
\* [size, capacity), fails the assert instead of returning a reference to
\* a cell that holds no live object.
C16_CheckedIndex ==
    [][(last'.op \in {"[]", "[] const"} /\ last'.p >= Size(Self)) =>
        last'.path = "assert"]_vars

\* the live RawMemory objects whose buffer_ is the block a
OwnersOf(a) == {r \in RawObjs : raw[r].alive /\ raw[r].data_.buffer_ = a}

\* No block was released twice; buffer_ is null exactly if capacity_ is 0
\* and else a block of capacity_ cells, never initialised; every block
\* taken from the heap is the buffer_ of exactly one live RawMemory.
RawMemoryOwnership ==
    /\ ~ub
    /\ \A r \in RawObjs :
          raw[r].alive =>
              /\ (raw[r].data_.buffer_ # NullPtr) <=> (raw[r].data_.capacity_ > 0)
              /\ raw[r].data_.buffer_ # NullPtr =>
                    mem[raw[r].data_.buffer_] = Block(raw[r].data_.capacity_)
    /\ \A a \in Addrs : mem[a] # NoBlock => Cardinality(OwnersOf(a)) = 1

\* A move leaves the source null with capacity 0 and gives its members to
\* the target; a move assignment also releases the block the target had;
\* Swap exchanges the members and releases nothing; a move onto itself
\* changes nothing.
RawMemoryTransfer ==
    /\ (last'.op \in {"RawMemory(&&)", "RawMemory=(&&)"} /\ last'.v # last'.w) =>
          /\ raw'[last'.w].data_ = EmptyRawMemory
          /\ raw'[last'.v].data_ = raw[last'.w].data_
    /\ (last'.op = "RawMemory=(&&)" /\ last'.v # last'.w /\ last'.p > 0) =>
          mem' = [mem EXCEPT ![raw[last'.v].data_.buffer_] = NoBlock]
    /\ (last'.op = "RawMemory=(&&)" /\ last'.v = last'.w) =>
          raw' = raw /\ mem' = mem
    /\ last'.op = "RawMemory(&&)" => mem' = mem
    /\ last'.op = "RawMemory::Swap" =>
          /\ raw'[last'.v].data_ = raw[last'.w].data_
          /\ raw'[last'.w].data_ = raw[last'.v].data_
          /\ mem' = mem
    /\ last'.op = "~RawMemory" =>
          \A a \in Addrs : mem'[a] = IF a = raw[last'.v].data_.buffer_
                                     THEN NoBlock ELSE mem[a]

\* C17: for every RawMemory reached by construction with a capacity n >= 0,
\* move construction, move assignment (also between two objects that both
\* own a block) and Swap: buffer_ is non-null exactly if capacity_ > 0, a
\* moved-from object is null with capacity 0, each block is released exactly
\* once and no block is owned by two objects.
C17_RawMemory == []RawMemoryOwnership /\ [][RawMemoryTransfer]_vars

\* a move assignment between two objects that both owned a block
C17_Witness ==
    /\ last.op = "RawMemory=(&&)"
    /\ last.v # last.w
    /\ last.p > 0
    /\ raw[last.v].data_.capacity_ > 0

\* the doubled capacity of Emplace is greater than the size it doubles
DoublingNoWrap == req.op = "Emplace" => req.capacity_ > req.n

\* C20: with the sizes computed in w-bit arithmetic, the block obtained by
\* RawMemory(n), through Vector(n), Reserve(n), Resize(n) and through the
\* doubled capacity of Emplace, holds at least capacity * sizeof(T) bytes,
\* and the doubled capacity is greater than the size: neither the product
\* n * sizeof(T) nor the doubling size * 2 wraps around.
C20_NoWrap ==
    /\ req.op # "" => req.bytes >= req.capacity_ * req.sizeofT
    /\ DoublingNoWrap
============================================================================
